---- MODULE Spec2Model ----
(***************************************************************************)
(* Last-mile delivery dashboard (src/app.py): one Streamlit script that    *)
(* loads a CSV, resolves its headers to eight canonical fields, cleans,    *)
(* derives `late` and `age_group`, filters on five categorical fields and  *)
(* renders metrics and charts.  The script re-runs top to bottom on every  *)
(* user interaction; only the widget values survive from run to run.       *)
(*                                                                         *)
(* Text is modelled as tuples of one-character strings so that strip(),    *)
(* lower() and numeric parsing are computed, not assumed.  Numbers are     *)
(* exact and kept in tenths (one decimal digit); a missing number is <<>>  *)
(* and a present one is <<v>>.  A missing text cell is NaN.                *)
(***************************************************************************)
EXTENDS Integers, Sequences, FiniteSets, TLC

VARIABLES
    fileExists,   \* os.path.exists(DATA_PATH)
    csvHeaders,   \* header row of the file, as written (untrimmed)
    csvRows,      \* data rows of the file: one tuple of cell texts per row
    pc,           \* position of the script in the current run
    df,           \* [columns, rows] after strip and missing-value normalisation
    col_map,      \* canonical field -> resolved header or None
    work,         \* the canonical table (sequence of records)
    rows_before,
    rows_after,
    widget,       \* session state of the five multiselects: <<>> or <<set>>
    sel,          \* the five selections returned by make_filter in this run
    filtered,     \* the filtered view
    out,          \* everything rendered so far in this run, in order
    prevWork      \* the engineered table of the previous completed run, <<>> if none

vars == <<fileExists, csvHeaders, csvRows, pc, df, col_map, work, rows_before,
          rows_after, widget, sel, filtered, out, prevWork>>

\* ---------------------------------------------------------------- literals
sDelivery_Time == <<"D", "e", "l", "i", "v", "e", "r", "y", "_", "T", "i", "m", "e">>  \* "Delivery_Time"
sDelivery_Time_sp == <<"D", "e", "l", "i", "v", "e", "r", "y", " ", "T", "i", "m", "e">>  \* "Delivery Time"
sTime_Taken == <<"T", "i", "m", "e", " ", "T", "a", "k", "e", "n">>  \* "Time Taken"
sdelivery_time == <<"d", "e", "l", "i", "v", "e", "r", "y", "_", "t", "i", "m", "e">>  \* "delivery_time"
sWeather == <<"W", "e", "a", "t", "h", "e", "r">>  \* "Weather"
sweather == <<"w", "e", "a", "t", "h", "e", "r">>  \* "weather"
sTraffic == <<"T", "r", "a", "f", "f", "i", "c">>  \* "Traffic"
straffic == <<"t", "r", "a", "f", "f", "i", "c">>  \* "traffic"
sVehicle == <<"V", "e", "h", "i", "c", "l", "e">>  \* "Vehicle"
svehicle == <<"v", "e", "h", "i", "c", "l", "e">>  \* "vehicle"
sVehicle_Type == <<"V", "e", "h", "i", "c", "l", "e", " ", "T", "y", "p", "e">>  \* "Vehicle Type"
sAgent_Age == <<"A", "g", "e", "n", "t", "_", "A", "g", "e">>  \* "Agent_Age"
sAgent_Age_sp == <<"A", "g", "e", "n", "t", " ", "A", "g", "e">>  \* "Agent Age"
sAge == <<"A", "g", "e">>  \* "Age"
sAgent_Rating == <<"A", "g", "e", "n", "t", "_", "R", "a", "t", "i", "n", "g">>  \* "Agent_Rating"
sAgent_Rating_sp == <<"A", "g", "e", "n", "t", " ", "R", "a", "t", "i", "n", "g">>  \* "Agent Rating"
sRating == <<"R", "a", "t", "i", "n", "g">>  \* "Rating"
sArea == <<"A", "r", "e", "a">>  \* "Area"
sarea == <<"a", "r", "e", "a">>  \* "area"
sRegion == <<"R", "e", "g", "i", "o", "n">>  \* "Region"
sCategory == <<"C", "a", "t", "e", "g", "o", "r", "y">>  \* "Category"
scategory == <<"c", "a", "t", "e", "g", "o", "r", "y">>  \* "category"
sProduct_Category == <<"P", "r", "o", "d", "u", "c", "t", " ", "C", "a", "t", "e", "g", "o", "r", "y">>  \* "Product Category"
hWeather_padded == <<" ", "W", "e", "a", "t", "h", "e", "r", " ">>  \* " Weather "
hWEATHER == <<"W", "E", "A", "T", "H", "E", "R">>  \* "WEATHER"
hdelivery_time_padded == <<" ", "d", "e", "l", "i", "v", "e", "r", "y", " ", "t", "i", "m", "e">>  \* " delivery time"
hOrder_ID == <<"O", "r", "d", "e", "r", "_", "I", "D">>  \* "Order_ID"
hVehicle_Type_2sp == <<"V", "e", "h", "i", "c", "l", "e", " ", " ", "T", "y", "p", "e">>  \* "Vehicle  Type"
tEmpty == <<>>  \* ""
tnan == <<"n", "a", "n">>  \* "nan"
tNone == <<"N", "o", "n", "e">>  \* "None"
tNA == <<"N", "A">>  \* "NA"
tabc == <<"a", "b", "c">>  \* "abc"
t0 == <<"0">>  \* "0"
t2 == <<"2">>  \* "2"
t3 == <<"3">>  \* "3"
t5 == <<"5">>  \* "5"
t24 == <<"2", "4">>  \* "24"
t24_5 == <<"2", "4", ".", "5">>  \* "24.5"
t25 == <<"2", "5">>  \* "25"
t40 == <<"4", "0">>  \* "40"
t41 == <<"4", "1">>  \* "41"
t100 == <<"1", "0", "0">>  \* "100"
t100_5 == <<"1", "0", "0", ".", "5">>  \* "100.5"
t150 == <<"1", "5", "0">>  \* "150"
tm1 == <<"-", "1">>  \* "-1"
t4_5 == <<"4", ".", "5">>  \* "4.5"
t4 == <<"4">>  \* "4"
t30 == <<"3", "0">>  \* "30"
tSunny == <<"S", "u", "n", "n", "y">>  \* "Sunny"
tRainy == <<"R", "a", "i", "n", "y">>  \* "Rainy"
tLow == <<"L", "o", "w">>  \* "Low"
tBike == <<"B", "i", "k", "e">>  \* "Bike"
tUrban == <<"U", "r", "b", "a", "n">>  \* "Urban"
tFood == <<"F", "o", "o", "d">>  \* "Food"

\* missing markers: neither is a text any cell or header can spell
NaN == <<"<NaN>">>
None == <<"<None>">>
NaNf == <<>>
Num(v) == <<v>>

\* ------------------------------------------------------------ text helpers
UpperChars == <<"A","B","C","D","E","F","G","H","I","J","K","L","M",
                "N","O","P","Q","R","S","T","U","V","W","X","Y","Z">>
LowerChars == <<"a","b","c","d","e","f","g","h","i","j","k","l","m",
                "n","o","p","q","r","s","t","u","v","w","x","y","z">>
DigitChars == <<"0","1","2","3","4","5","6","7","8","9">>

IndexOf(c, chars) == CHOOSE i \in 1..Len(chars) : chars[i] = c
Among(c, chars) == \E i \in 1..Len(chars) : chars[i] = c

\* the characters of every text of the model
Alphabet == {UpperChars[i] : i \in 1..Len(UpperChars)}
            \cup {LowerChars[i] : i \in 1..Len(LowerChars)}
            \cup {DigitChars[i] : i \in 1..Len(DigitChars)}
            \cup {" ", "_", ".", "-"}

LowerOf == [c \in Alphabet |->
              IF Among(c, UpperChars) THEN LowerChars[IndexOf(c, UpperChars)] ELSE c]

\* str.lower()
RECURSIVE Lower(_)
Lower(s) == IF s = <<>> THEN <<>> ELSE <<LowerOf[Head(s)]>> \o Lower(Tail(s))

RECURSIVE LStrip(_)
LStrip(s) == IF s # <<>> /\ Head(s) = " " THEN LStrip(Tail(s)) ELSE s

RECURSIVE RStrip(_)
RStrip(s) == IF s # <<>> /\ s[Len(s)] = " " THEN RStrip(SubSeq(s, 1, Len(s) - 1)) ELSE s

\* str.strip(): drops the blanks at both ends
Strip(s) == RStrip(LStrip(s))

\* Python truthiness of `found`: None and the empty string are falsy
Truthy(x) == x # None /\ x # <<>>

\* ------------------------------------------------------ column detection
FieldOrder == <<"delivery_time", "weather", "traffic", "vehicle",
                "agent_age", "agent_rating", "area", "category">>
Fields == {FieldOrder[i] : i \in 1..Len(FieldOrder)}
NumericFields == {"delivery_time", "agent_age", "agent_rating"}
CatOrder == <<"weather", "traffic", "vehicle", "area", "category">>
CatFields == {CatOrder[i] : i \in 1..Len(CatOrder)}

variants == [
    delivery_time |-> <<sDelivery_Time, sDelivery_Time_sp, sTime_Taken, sdelivery_time>>,
    weather       |-> <<sWeather, sweather>>,
    traffic       |-> <<sTraffic, straffic>>,
    vehicle       |-> <<sVehicle, svehicle, sVehicle_Type>>,
    agent_age     |-> <<sAgent_Age, sAgent_Age_sp, sAge>>,
    agent_rating  |-> <<sAgent_Rating, sAgent_Rating_sp, sRating>>,
    area          |-> <<sArea, sarea, sRegion>>,
    category      |-> <<sCategory, scategory, sProduct_Category>> ]

\* c.lower().strip(), the form both sides of the comparison take
Folded(s) == Strip(Lower(s))

RECURSIVE FoldAll(_)
FoldAll(ss) == IF ss = <<>> THEN <<>> ELSE <<Folded(Head(ss))>> \o FoldAll(Tail(ss))

\* the inner loop of find_col: the first c in df_cols, from position i on,
\* with c.lower().strip() == o.lower().strip(); `found` is left as it was
\* when there is none.  `folded` holds the folded headers, computed once.
RECURSIVE ScanCols(_, _, _, _, _)
ScanCols(o, df_cols, folded, i, found) ==
    IF i > Len(df_cols) THEN found
    ELSE IF folded[i] = o THEN df_cols[i]
    ELSE ScanCols(o, df_cols, folded, i + 1, found)

\* the outer loop of find_col: the options in listed order, left as soon as
\* `found` is truthy
RECURSIVE ScanOptions(_, _, _, _, _)
ScanOptions(options, df_cols, folded, j, found) ==
    IF j > Len(options) THEN found
    ELSE LET f == ScanCols(Folded(options[j]), df_cols, folded, 1, found)
         IN  IF Truthy(f) THEN f ELSE ScanOptions(options, df_cols, folded, j + 1, f)

\* the same two loops nested the other way round: header order first
RECURSIVE ScanHeadersFirst(_, _, _)
ScanHeadersFirst(options, df_cols, i) ==
    IF i > Len(df_cols) THEN None
    ELSE IF \E j \in 1..Len(options) : Folded(df_cols[i]) = Folded(options[j])
         THEN df_cols[i]
         ELSE ScanHeadersFirst(options, df_cols, i + 1)

find_col_header_first(vs, df_cols) ==
    [key \in DOMAIN vs |-> ScanHeadersFirst(vs[key], df_cols, 1)]

find_col(vs, df_cols) ==
    LET folded == FoldAll(df_cols)
    IN  [key \in DOMAIN vs |-> ScanOptions(vs[key], df_cols, folded, 1, None)]

\* ------------------------------------------------------------- loading
\* pd.read_csv(..., dtype=str): the cells pandas reads as missing by default
NaValues == {tEmpty, tnan, tNone, tNA}
read_csv_cell(t) == IF t \in NaValues THEN NaN ELSE t

\* .astype(str) spells a missing cell "nan"
astype_str(v) == IF v = NaN THEN tnan ELSE v

\* .replace({"": nan, "nan": nan, "None": nan})
replace_missing(v) == IF v \in {tEmpty, tnan, tNone} THEN NaN ELSE v

normalize_cell(t) == replace_missing(astype_str(read_csv_cell(t)))

load_df(headers, rows) ==
    [ columns |-> [i \in 1..Len(headers) |-> Strip(headers[i])],
      rows    |-> [r \in 1..Len(rows) |->
                     [i \in 1..Len(headers) |-> normalize_cell(rows[r][i])]] ]

\* df[src]: the cell of row r in the column named src
ColumnIndex(columns, src) == CHOOSE i \in 1..Len(columns) : columns[i] = src

\* ---------------------------------------------------- numeric coercion
Tenths(n) == n * 10

RECURSIVE DigitsValue(_, _)
DigitsValue(s, acc) ==
    IF s = <<>> THEN acc
    ELSE DigitsValue(Tail(s), acc * 10 + (IndexOf(Head(s), DigitChars) - 1))

AllDigits(s) == \A i \in 1..Len(s) : Among(s[i], DigitChars)

\* an unsigned decimal with at most one digit after the point, in tenths
ParseUnsigned(s) ==
    LET dots == {i \in 1..Len(s) : s[i] = "."}
    IN  IF dots = {}
        THEN IF s # <<>> /\ AllDigits(s) THEN Num(Tenths(DigitsValue(s, 0))) ELSE NaNf
        ELSE LET d == CHOOSE i \in dots : TRUE
                 ip == SubSeq(s, 1, d - 1)
                 fp == SubSeq(s, d + 1, Len(s))
             IN  IF Cardinality(dots) = 1 /\ ip # <<>> /\ AllDigits(ip)
                    /\ Len(fp) = 1 /\ AllDigits(fp)
                 THEN Num(Tenths(DigitsValue(ip, 0)) + DigitsValue(fp, 0))
                 ELSE NaNf

\* pd.to_numeric(..., errors="coerce") of one cell
to_numeric(v) ==
    IF v = NaN \/ v = <<>> THEN NaNf
    ELSE IF Head(v) = "-"
         THEN LET u == ParseUnsigned(Tail(v)) IN IF u = NaNf THEN NaNf ELSE Num(0 - u[1])
         ELSE ParseUnsigned(v)

\* the canonical row built from one df row (lines 68-78)
standardize_row(cm, columns, row) ==
    [key \in Fields |->
        LET cell == IF Truthy(cm[key]) THEN row[ColumnIndex(columns, cm[key])] ELSE NaN
        IN  IF key \in NumericFields THEN to_numeric(cell) ELSE cell]

\* work.dropna(subset=["delivery_time"])
keep_all_rows(rows) == rows

dropna_delivery_time(rows) ==
    SelectSeq(rows, LAMBDA r : r.delivery_time # NaNf)

\* --------------------------------------------------- feature engineering
RECURSIVE SumSeq(_)
SumSeq(s) == IF s = <<>> THEN 0 ELSE Head(s) + SumSeq(Tail(s))

\* the present numbers of a column, as a sequence of integers (skipna)
Present(col) == LET p == SelectSeq(col, LAMBDA x : x # NaNf)
                IN  [i \in 1..Len(p) |-> p[i][1]]

Column(rows, key) == [i \in 1..Len(rows) |-> rows[i][key]]

\* Series.mean(): the exact fraction <<sum, count>>, missing when nothing is present
mean(col) ==
    LET xs == Present(col)
    IN  IF Len(xs) = 0 THEN NaNf ELSE <<SumSeq(xs), Len(xs)>>

\* the standard deviation with `ddof` delta degrees of freedom, kept as the
\* exact fraction <<num, den>> under the square root:
\*   sum((x - mean)^2) / (n - ddof)  =  sum((n*x - S)^2) / (n*n*(n - ddof))
\* missing when n - ddof <= 0
std_ddof(col, ddof) ==
    LET xs == Present(col)
        n  == Len(xs)
        S  == SumSeq(xs)
    IN  IF n - ddof <= 0 THEN NaNf
        ELSE <<SumSeq([i \in 1..n |-> (n * xs[i] - S) * (n * xs[i] - S)]),
               n * n * (n - ddof)>>

\* the population form (divisor n)
std_population(col) == std_ddof(col, 0)

\* Series.std(): pandas' default is ddof=1 (divisor n - 1)
std(col) == std_ddof(col, 1)

\* x > m + s for x = <<v>>, m = <<num, den>>, s = sqrt(<<num, den>>); a
\* comparison with a missing operand is False
exceeds(x, m, s) ==
    /\ x # NaNf /\ m # NaNf /\ s # NaNf
    /\ LET a == x[1] * m[2] - m[1]
       IN  a > 0 /\ a * a * s[2] > s[1] * m[2] * m[2]

late_column(rows) ==
    LET mean_time == mean(Column(rows, "delivery_time"))
        std_time  == std(Column(rows, "delivery_time"))
    IN  [i \in 1..Len(rows) |->
           IF exceeds(rows[i].delivery_time, mean_time, std_time) THEN 1 ELSE 0]

AgeBins == <<0, 24, 40, 100>>
AgeLabels == <<"<25", "25-40", "40+">>   \* the middle label is spelt with an en dash
NoLabel == "NaN"

\* pd.cut(x, bins, labels, right=True, include_lowest): bin k is
\* (bins[k], bins[k+1]], and the first bin takes bins[1] too with include_lowest
cut(x, bins, labels, include_lowest) ==
    IF x = NaNf THEN NoLabel
    ELSE LET hit == {k \in 1..(Len(bins) - 1) :
                       \/ Tenths(bins[k]) < x[1] /\ x[1] <= Tenths(bins[k + 1])
                       \/ include_lowest /\ k = 1 /\ x[1] = Tenths(bins[1])}
         IN  IF hit = {} THEN NoLabel ELSE labels[CHOOSE k \in hit : TRUE]

age_group_open_lowest(age) == cut(age, AgeBins, AgeLabels, FALSE)

age_group(age) == cut(age, AgeBins, AgeLabels, TRUE)

Extend(row, late, group) ==
    [key \in Fields \cup {"late", "age_group"} |->
        IF key = "late" THEN late
        ELSE IF key = "age_group" THEN group
        ELSE row[key]]

engineer(rows) ==
    LET late == late_column(rows)
    IN  [i \in 1..Len(rows) |-> Extend(rows[i], late[i], age_group(rows[i].agent_age))]

\* ---------------------------------------------------------------- filters
\* work[col].dropna().unique(): sorted() only orders the options on screen
vals(rows, col) == {rows[i][col] : i \in 1..Len(rows)} \ {NaN}

isin_or_missing(v, values) == v = NaN \/ v \in values

\* Series.isin(values) of one cell
isin(v, values) == v \in values

passes_any(r, s) == \E f \in CatFields : isin(r[f], s[f])

\* the conjunction of the five isin masks, for one record
passes(r, s) == \A f \in CatFields : isin(r[f], s[f])

filter_rows(rows, s) == SelectSeq(rows, LAMBDA r : passes(r, s))

\* what make_filter(col) returns: the multiselect's value (its default, all
\* options, until the user has touched it) or [] when there is nothing to offer
make_filter(rows, w, col) ==
    IF vals(rows, col) # {}
    THEN IF w[col] = <<>> THEN vals(rows, col) ELSE w[col][1]
    ELSE {}

\* -------------------------------------------------------------- rendering
Item(kind, about, data) == [kind |-> kind, about |-> about, data |-> data]

RECURSIVE Concat(_)
Concat(ss) == IF ss = <<>> THEN <<>> ELSE Head(ss) \o Concat(Tail(ss))

PageHead == << Item("title", "Last-Mile Delivery Analytics Dashboard", <<>>),
               Item("caption", "FA2 Project", <<>>) >>

MappingItems(cm) ==
    <<Item("sidebar.header", "Column Mapping", <<>>)>> \o
    [i \in 1..Len(FieldOrder) |-> Item("sidebar.write", FieldOrder[i], cm[FieldOrder[i]])]

SummaryItems(before, after, rows) ==
    << Item("sidebar.markdown", "Data Summary", <<>>),
       Item("sidebar.write", "Rows before cleaning", <<before>>),
       Item("sidebar.write", "Rows after cleaning", <<after>>),
       Item("sidebar.dataframe", "work.head()", SubSeq(rows, 1, IF Len(rows) < 5 THEN Len(rows) ELSE 5)) >>

FilterItems(rows, s) ==
    <<Item("sidebar.header", "Filters", <<>>)>> \o
    Concat([i \in 1..Len(CatOrder) |->
              IF vals(rows, CatOrder[i]) # {}
              THEN <<Item("sidebar.multiselect", CatOrder[i], <<vals(rows, CatOrder[i]), s[CatOrder[i]]>>)>>
              ELSE <<>>])

\* f"{x:.2f}" of a float: "nan" for a missing mean, digits otherwise
format_float(x) == IF x = NaNf THEN "nan" ELSE "number"

Metric(label, value) == Item("metric", label, <<format_float(value), value>>)

mean_late(rows) ==
    IF Len(rows) = 0 THEN NaNf
    ELSE <<SumSeq([i \in 1..Len(rows) |-> rows[i].late]), Len(rows)>>

MetricItems(rows) ==
    << Metric("Avg Delivery Time (min)", mean(Column(rows, "delivery_time"))),
       Metric("Avg Agent Rating", mean(Column(rows, "agent_rating"))),
       Metric("Late Deliveries (%)", mean_late(rows)),
       Item("markdown", "---", <<>>) >>

\* filtered.groupby(col, as_index=False)["delivery_time"].mean(): one row per
\* present key (groupby drops missing keys)
groupby_mean(rows, col) ==
    {<<k, mean(Column(SelectSeq(rows, LAMBDA r : r[col] = k), "delivery_time"))>> :
        k \in vals(rows, col)}

show_bar(grouped, title) ==
    IF grouped = {} THEN Item("info", title, <<>>)
    ELSE Item("plotly_chart", title, grouped)

show_scatter(rows, title) ==
    IF Len(rows) = 0 THEN Item("info", title, <<>>)
    ELSE Item("plotly_chart", title, rows)

show_box(rows) ==
    IF Len(rows) = 0 THEN Item("info", "selected filters", <<>>)
    ELSE Item("plotly_chart", "Delivery Time Distribution by Category", rows)

ChartTitles == <<"Avg Delivery Time by Weather", "Avg Delivery Time by Traffic",
                 "Avg Delivery Time by Vehicle", "Agent Rating vs Delivery Time",
                 "Avg Delivery Time by Area", "selected filters">>

ChartItems(rows) ==
    << Item("subheader", "Average Delivery Time by Weather", <<>>),
       show_bar(groupby_mean(rows, "weather"), "Avg Delivery Time by Weather"),
       Item("subheader", "Average Delivery Time by Traffic", <<>>),
       show_bar(groupby_mean(rows, "traffic"), "Avg Delivery Time by Traffic"),
       Item("subheader", "Vehicle Performance", <<>>),
       show_bar(groupby_mean(rows, "vehicle"), "Avg Delivery Time by Vehicle"),
       Item("subheader", "Agent Performance", <<>>),
       show_scatter(rows, "Agent Rating vs Delivery Time"),
       Item("subheader", "Area-Wise Average Delivery Time", <<>>),
       show_bar(groupby_mean(rows, "area"), "Avg Delivery Time by Area"),
       Item("subheader", "Category Distribution", <<>>),
       show_box(rows),
       Item("markdown", "---", <<>>),
       Item("caption", "Tip", <<>>),
       Item("caption", "Developed by", <<>>) >>

\* ------------------------------------------------------------------ inputs
\* A file is a header row and data rows.  A layout names the header of each
\* column and the canonical content the column carries; a row template
\* gives the cell texts of one delivery.
Col(h, f) == [h |-> h, f |-> f]

Row(dt, w, t, v, age, rating, area, cat) ==
    [delivery_time |-> dt, weather |-> w, traffic |-> t, vehicle |-> v,
     agent_age |-> age, agent_rating |-> rating, area |-> area, category |-> cat]

HeadersOf(layout) == [i \in 1..Len(layout) |-> layout[i].h]
RowsOf(layout, rows) ==
    [r \in 1..Len(rows) |-> [i \in 1..Len(layout) |-> rows[r][layout[i].f]]]

BoundedSeq(S, n) == UNION {[1..k -> S] : k \in 0..n}

FullLayout ==
    << Col(sDelivery_Time, "delivery_time"), Col(sWeather, "weather"),
       Col(sTraffic, "traffic"), Col(sVehicle, "vehicle"),
       Col(sAgent_Age, "agent_age"), Col(sAgent_Rating, "agent_rating"),
       Col(sArea, "area"), Col(sCategory, "category") >>

\* other spellings, another column order, an unrelated column and no area column
AltLayout ==
    << Col(hOrder_ID, "agent_age"), Col(hWeather_padded, "weather"),
       Col(sTime_Taken, "delivery_time"), Col(straffic, "traffic"),
       Col(sVehicle_Type, "vehicle"), Col(sAge, "agent_age"),
       Col(sRating, "agent_rating"), Col(sProduct_Category, "category") >>

\* no delivery-time column under any accepted spelling
NoTimeLayout ==
    << Col(sWeather, "weather"), Col(sTraffic, "traffic"), Col(sVehicle, "vehicle"),
       Col(sArea, "area"), Col(sCategory, "category") >>

Layouts == {FullLayout, AltLayout, NoTimeLayout}

RowPool ==
    { Row(t0,    tSunny, tLow, tBike, t24,  t4_5,   tUrban, tFood),
      Row(t2,    tRainy, tLow, tBike, t25,  t4,     tUrban, tFood),
      Row(tnan,  tSunny, tLow, tBike, t41,  tEmpty, tUrban, tFood),
      Row(tabc,  tRainy, tLow, tBike, t30,  t4,     tUrban, tFood),
      Row(tEmpty,tSunny, tLow, tBike, t30,  t4_5,   tUrban, tFood),
      Row(tNone, tRainy, tLow, tBike, tabc, t4,     tnan,   tFood),
      Row(t2,    tEmpty, tLow, tBike, t30,  t4,     tUrban, tFood),
      Row(t3,    tRainy, tLow, tBike, t150, t4_5,   tUrban, tNone) }

MaxRows == 2

\* deliveries whose times put the two standard deviations apart, in both weathers
LatePool ==
    { Row(t0, tSunny, tLow, tBike, t30, t4,   tUrban, tFood),
      Row(t2, tRainy, tLow, tBike, t30, t4_5, tUrban, tFood),
      Row(t3, tSunny, tLow, tBike, t30, t4,   tUrban, tFood),
      Row(t5, tRainy, tLow, tBike, t30, t4_5, tUrban, tFood) }

MaxLateRows == 3

\* the header universe of the resolver's specification: no two of them are
\* equal once trimmed (pandas renames repeated headers)
HeaderPool ==
    { sTime_Taken, sDelivery_Time_sp, hdelivery_time_padded,
      hWeather_padded, sweather, hWEATHER, sVehicle_Type, svehicle,
      hVehicle_Type_2sp }

MaxHeaders == 3

InjectiveSeqs(S, n) ==
    {s \in BoundedSeq(S, n) : \A i, j \in 1..Len(s) : i # j => s[i] # s[j]}

\* the ages around every bin edge, with the other cells fixed
AgePool ==
    { Row(t5, tSunny, tLow, tBike, a, t4, tUrban, tFood) :
        a \in {tm1, t0, t24, t24_5, t25, t40, t41, t100, t100_5, t150, tEmpty, tabc} }

MaxAgeRows == 1

\* ------------------------------------------------------------ the script
NoWidget == [f \in CatFields |-> <<>>]
NoSel == [f \in CatFields |-> {}]
NoDf == [columns |-> <<>>, rows |-> <<>>]
NoMap == [key \in Fields |-> None]

\* a fresh run: the script's names are unbound, nothing is rendered
FreshRun ==
    /\ pc = "start"
    /\ df = NoDf
    /\ col_map = NoMap
    /\ work = <<>>
    /\ rows_before = 0
    /\ rows_after = 0
    /\ sel = NoSel
    /\ filtered = <<>>
    /\ out = <<>>

\* the script starts over: none of its names survives a run
Rerun ==
    /\ pc' = "start"
    /\ df' = NoDf
    /\ col_map' = NoMap
    /\ work' = <<>>
    /\ rows_before' = 0
    /\ rows_after' = 0
    /\ sel' = NoSel
    /\ filtered' = <<>>
    /\ out' = <<>>

FirstRun == FreshRun /\ widget = NoWidget /\ prevWork = <<>>

NoFile == fileExists = FALSE /\ csvHeaders = <<>> /\ csvRows = <<>>

File(headers, rows) == fileExists = TRUE /\ csvHeaders = headers /\ csvRows = rows

Init ==
    /\ \/ NoFile
       \/ \E layout \in Layouts, rows \in BoundedSeq(RowPool, MaxRows) :
             File(HeadersOf(layout), RowsOf(layout, rows))
    /\ FirstRun

InitResolve ==
    /\ \/ NoFile
       \/ \E headers \in InjectiveSeqs(HeaderPool, MaxHeaders), n \in 0..1 :
             File(headers, [r \in 1..n |-> [i \in 1..Len(headers) |-> t5]])
    /\ FirstRun

InitLate ==
    /\ \/ NoFile
       \/ \E layout \in {FullLayout, NoTimeLayout}, rows \in BoundedSeq(LatePool, MaxLateRows) :
             File(HeadersOf(layout), RowsOf(layout, rows))
    /\ FirstRun

InitAge ==
    /\ \/ NoFile
       \/ \E layout \in {FullLayout, NoTimeLayout}, rows \in BoundedSeq(AgePool, MaxAgeRows) :
             File(HeadersOf(layout), RowsOf(layout, rows))
    /\ FirstRun

SameSession ==
    UNCHANGED <<fileExists, csvHeaders, csvRows, widget, prevWork>>

\* the message is shown for an absent file but the run is not stopped
LoadMissingContinue ==
    /\ pc = "start" /\ ~fileExists
    /\ out' = PageHead \o <<Item("error", "Dataset not found", <<>>)>>
    /\ pc' = "loaded"
    /\ UNCHANGED <<df, col_map, work, rows_before, rows_after, sel, filtered>>
    /\ SameSession

LoadMissing ==
    /\ pc = "start" /\ ~fileExists
    /\ out' = PageHead \o <<Item("error", "Dataset not found", <<>>)>>
    /\ pc' = "stopped"
    /\ UNCHANGED <<df, col_map, work, rows_before, rows_after, sel, filtered>>
    /\ SameSession

\* lines 12-31: read the file, trim the headers, normalise the missing cells
Load ==
    /\ pc = "start" /\ fileExists
    /\ out' = PageHead
    /\ df' = load_df(csvHeaders, csvRows)
    /\ pc' = "loaded"
    /\ UNCHANGED <<col_map, work, rows_before, rows_after, sel, filtered>>
    /\ SameSession

\* lines 58-65: the mapping is shown, then delivery_time is found missing
ResolveFail ==
    /\ pc = "loaded"
    /\ LET cm == find_col(variants, df.columns)
       IN  /\ ~Truthy(cm["delivery_time"])
           /\ col_map' = cm
           /\ out' = out \o MappingItems(cm)
                         \o <<Item("error", "Could not find 'Delivery_Time' column", <<>>)>>
    /\ pc' = "stopped"
    /\ UNCHANGED <<df, work, rows_before, rows_after, sel, filtered>>
    /\ SameSession

\* lines 58-65: the mapping is shown and delivery_time is resolved
Resolve ==
    /\ pc = "loaded"
    /\ LET cm == find_col(variants, df.columns)
       IN  /\ Truthy(cm["delivery_time"])
           /\ col_map' = cm
           /\ out' = out \o MappingItems(cm)
    /\ pc' = "resolved"
    /\ UNCHANGED <<df, work, rows_before, rows_after, sel, filtered>>
    /\ SameSession

\* lines 67-88: canonical columns, numeric coercion, drop, summary
Clean ==
    /\ pc = "resolved"
    /\ LET table == [r \in 1..Len(df.rows) |->
                       standardize_row(col_map, df.columns, df.rows[r])]
           kept  == dropna_delivery_time(table)
       IN  /\ rows_before' = Len(table)
           /\ rows_after' = Len(kept)
           /\ work' = kept
           /\ out' = out \o SummaryItems(Len(table), Len(kept), kept)
    /\ pc' = "cleaned"
    /\ UNCHANGED <<df, col_map, sel, filtered>>
    /\ SameSession

\* the current widget values applied before the features are derived
DeriveFromSelection ==
    /\ pc = "cleaned"
    /\ LET s    == [f \in CatFields |-> make_filter(work, widget, f)]
           view == engineer(filter_rows(work, s))
           late(r) == IF \E i \in 1..Len(view) :
                            /\ \A k \in Fields : view[i][k] = r[k]
                            /\ view[i].late = 1
                      THEN 1 ELSE 0
       IN  work' = [i \in 1..Len(work) |->
                      Extend(work[i], late(work[i]), age_group(work[i].agent_age))]
    /\ pc' = "derived"
    /\ UNCHANGED <<df, col_map, rows_before, rows_after, sel, filtered, out>>
    /\ SameSession

\* lines 90-94: late and age_group over the whole cleaned table
Derive ==
    /\ pc = "cleaned"
    /\ work' = engineer(work)
    /\ pc' = "derived"
    /\ UNCHANGED <<df, col_map, rows_before, rows_after, sel, filtered, out>>
    /\ SameSession

\* lines 96-109: the five multiselects
MakeFilters ==
    /\ pc = "derived"
    /\ LET s == [f \in CatFields |-> make_filter(work, widget, f)]
       IN  /\ sel' = s
           /\ widget' = [f \in CatFields |->
                           IF vals(work, f) # {} THEN <<s[f]>> ELSE widget[f]]
           /\ out' = out \o FilterItems(work, s)
    /\ pc' = "selected"
    /\ UNCHANGED <<fileExists, csvHeaders, csvRows, prevWork>>
    /\ UNCHANGED <<df, col_map, work, rows_before, rows_after, filtered>>

\* lines 111-119: the filtered view and its size
Filter ==
    /\ pc = "selected"
    /\ filtered' = filter_rows(work, sel)
    /\ out' = out \o <<Item("write", "Filtered records", <<Len(filtered'), Len(work)>>)>>
    /\ pc' = "filtered"
    /\ UNCHANGED <<df, col_map, work, rows_before, rows_after, sel>>
    /\ SameSession

\* lines 121-127
Metrics ==
    /\ pc = "filtered"
    /\ out' = out \o MetricItems(filtered)
    /\ pc' = "metrics"
    /\ UNCHANGED <<df, col_map, work, rows_before, rows_after, sel, filtered>>
    /\ SameSession

\* lines 129-174
Charts ==
    /\ pc = "metrics"
    /\ out' = out \o ChartItems(filtered)
    /\ pc' = "done"
    /\ UNCHANGED <<df, col_map, work, rows_before, rows_after, sel, filtered>>
    /\ SameSession

\* the user changes one multiselect; Streamlit keeps the widget values and
\* runs the script again from the top
ChangeSelection ==
    /\ pc = "done"
    /\ \E f \in CatFields :
         /\ vals(work, f) # {}
         /\ \E s \in SUBSET vals(work, f) :
              /\ s # sel[f]
              /\ widget' = [widget EXCEPT ![f] = <<s>>]
    /\ prevWork' = <<work>>
    /\ Rerun
    /\ UNCHANGED <<fileExists, csvHeaders, csvRows>>

Next ==
    \/ LoadMissing
    \/ Load
    \/ ResolveFail
    \/ Resolve
    \/ Clean
    \/ Derive
    \/ MakeFilters
    \/ Filter
    \/ Metrics
    \/ Charts
    \/ ChangeSelection

Spec == Init /\ [][Next]_vars

SpecResolve == InitResolve /\ [][Next]_vars

SpecLate == InitLate /\ [][Next]_vars

SpecAge == InitAge /\ [][Next]_vars

\* ================================================================ claims
AfterClean == pc \in {"cleaned", "derived", "selected", "filtered", "metrics", "done"}
AfterDerive == pc \in {"derived", "selected", "filtered", "metrics", "done"}
AfterSelect == pc \in {"selected", "filtered", "metrics", "done"}
AfterFilter == pc \in {"filtered", "metrics", "done"}

Count(rows, P(_)) == Cardinality({i \in 1..Len(rows) : P(rows[i])})
AllPresent(r) == \A f \in CatFields : r[f] # NaN
Selected(r) == \A f \in CatFields : r[f] \in sel[f]

\* C1: a cleaned record is in the filtered view exactly when each of its
\* five categorical values is a member of that field's selection (the view
\* keeps those records, each once, in the table's order), and an empty
\* selection on any one field empties the view.
C1_FilterIsConjunction ==
    AfterFilter =>
        /\ \A i \in 1..Len(work) :
              (\E j \in 1..Len(filtered) : filtered[j] = work[i]) <=> Selected(work[i])
        /\ Len(filtered) = Count(work, Selected)
        /\ (\E f \in CatFields : sel[f] = {}) => filtered = <<>>

\* C1 witness: a selection that keeps one record and drops another whose
\* five values are all present.
C1_Witness ==
    /\ pc = "filtered"
    /\ filtered # <<>>
    /\ \E i \in 1..Len(work) : AllPresent(work[i]) /\ ~Selected(work[i])

\* the raw delivery-time cell of each file row, under the resolved header
TimeColumn == CHOOSE i \in 1..Len(csvHeaders) : Strip(csvHeaders[i]) = col_map["delivery_time"]
Discardable == {tEmpty, tnan, tNone, tabc}

\* C2: after the Cleaner every record has a present delivery_time, the rows
\* whose delivery-time cell is blank, "nan", "None" or unparsable are the
\* ones discarded, and the count after is at most the count before.
C2_CleanedTimesPresent ==
    AfterClean =>
        /\ \A i \in 1..Len(work) : work[i].delivery_time # NaNf
        /\ rows_before = Len(csvRows)
        /\ rows_after = Len(work)
        /\ rows_after = Cardinality({r \in 1..Len(csvRows) : csvRows[r][TimeColumn] \notin Discardable})
        /\ rows_after <= rows_before

\* C2 witness: a run whose Cleaner discarded some rows and kept others.
C2_Witness == pc = "cleaned" /\ 0 < rows_after /\ rows_after < rows_before

\* sums over the cleaned delivery times (in tenths)
Times == [i \in 1..Len(work) |-> work[i].delivery_time[1]]
SumT == SumSeq(Times)
SumSqT == SumSeq([i \in 1..Len(work) |-> Times[i] * Times[i]])
\* n * sum(x^2) - (sum x)^2  =  n * sum((x - mean)^2)
SpreadT == Len(work) * SumSqT - SumT * SumT
Above(i) == Len(work) * Times[i] - SumT

\* C3 as stated: late is 1 exactly when delivery_time exceeds the mean plus
\* the population standard deviation (divisor n); with at most one record
\* nothing is late.
C3_LatePopulationStd ==
    AfterDerive =>
        /\ \A i \in 1..Len(work) :
              work[i].late = (IF Above(i) > 0 /\ Above(i) * Above(i) > SpreadT THEN 1 ELSE 0)
        /\ Len(work) <= 1 => \A i \in 1..Len(work) : work[i].late = 0

\* C3 amended: late is 1 exactly when delivery_time exceeds the mean plus
\* the sample standard deviation (divisor n - 1) of the cleaned delivery
\* times; with at most one record nothing is late.
C3_LateSampleStd ==
    AfterDerive =>
        /\ \A i \in 1..Len(work) :
              work[i].late = (IF /\ Len(work) >= 2
                                 /\ Above(i) > 0
                                 /\ Above(i) * Above(i) * (Len(work) - 1) > Len(work) * SpreadT
                              THEN 1 ELSE 0)
        /\ Len(work) <= 1 => \A i \in 1..Len(work) : work[i].late = 0

\* C3 witness: a cleaned table with a late record and a record that is not.
C3_Witness ==
    /\ pc = "derived"
    /\ \E i, j \in 1..Len(work) : work[i].late = 1 /\ work[j].late = 0

\* positions of the file's headers that match spelling o once both are
\* lower-cased and trimmed
Matching(o) == {i \in 1..Len(csvHeaders) : Lower(Strip(csvHeaders[i])) = Lower(Strip(o))}
Least(S) == CHOOSE i \in S : \A j \in S : i <= j
Expected(key) ==
    LET hits == {j \in 1..Len(variants[key]) : Matching(variants[key][j]) # {}}
    IN  IF hits = {} THEN None
        ELSE Strip(csvHeaders[Least(Matching(variants[key][Least(hits)]))])

Kinds(ks) == {i \in 1..Len(out) : out[i].kind \in ks}
PipelineKinds == {"sidebar.header", "sidebar.write", "sidebar.markdown", "sidebar.dataframe",
                  "sidebar.multiselect", "write", "metric", "markdown", "subheader",
                  "plotly_chart", "info"}
AfterMappingKinds == PipelineKinds \ {"sidebar.header", "sidebar.write"}

\* C5 as stated: a halted run has rendered its error and none of the column
\* mapping, data summary, filter controls, metrics or charts.
C5_HaltRendersNothingElse ==
    pc = "stopped" => Kinds({"error"}) # {} /\ Kinds(PipelineKinds) = {}

\* C5 amended: a run halts with exactly one error message, the last thing it
\* renders.  With the file absent nothing but the page title and caption
\* precedes the message; with delivery_time unresolved the column mapping
\* (already shown by the resolver) precedes it, and no data summary, filter
\* control, metric or chart is rendered.  An error is rendered only by a
\* halting run.
C5_HaltAfterErrorOnly ==
    /\ Kinds({"error"}) # {} => pc = "stopped"
    /\ pc = "stopped" =>
          /\ Kinds({"error"}) = {Len(out)}
          /\ Kinds(AfterMappingKinds) = {}
          /\ ~fileExists => Kinds(PipelineKinds) = {}
          /\ fileExists =>
                /\ ~Truthy(col_map["delivery_time"])
                /\ Cardinality(Kinds({"sidebar.write"})) = Len(FieldOrder)

\* C5 witness: the file is absent and the run has halted on its message.
C5_Witness == pc = "stopped" /\ ~fileExists /\ Len(out) = Len(PageHead) + 1

MetricNaN == {i \in Kinds({"metric"}) : out[i].data[1] = "nan"}
Placeholders == {out[i].about : i \in Kinds({"info"})}

\* C6 as stated: with an empty filtered view every metric and every chart
\* is rendered as a "no data" signal and no metric shows not-a-number.
C6_EmptyViewNoNaN ==
    pc = "done" /\ filtered = <<>> =>
        /\ MetricNaN = {}
        /\ Kinds({"plotly_chart"}) = {}
        /\ Placeholders = {ChartTitles[i] : i \in 1..Len(ChartTitles)}

\* what the sidebar says about field f besides its multiselect: its mapping
\* line when that line shows no column, and any message of the filter stage
Indications(f) ==
    {i \in 1..Len(out) :
        /\ out[i].about = f
        /\ \/ out[i].kind = "sidebar.write" /\ out[i].data = None
           \/ out[i].kind \in {"sidebar.info", "sidebar.warning", "info", "warning"}}

\* C7 as stated: a categorical field with no available value has an empty
\* selection, no record passes the filter, and the user is told that the
\* field has no values.
C7_NoValuesIndicated ==
    AfterFilter =>
        \A f \in CatFields :
            vals(work, f) = {} =>
                /\ sel[f] = {}
                /\ filtered = <<>>
                /\ Indications(f) # {}

\* the label the claim gives each age text
AgeTable ==
    { <<tm1, NoLabel>>, <<t0, "<25">>, <<t24, "<25">>, <<t24_5, "25-40">>, <<t25, "25-40">>,
      <<t40, "25-40">>, <<t41, "40+">>, <<t100, "40+">>, <<t100_5, NoLabel>>,
      <<t150, NoLabel>>, <<tEmpty, NoLabel>>, <<tabc, NoLabel>> }
AgeColumn == CHOOSE i \in 1..Len(csvHeaders) : Strip(csvHeaders[i]) = col_map["agent_age"]
RangeLabel(a) ==
    IF a = NaNf THEN NoLabel
    ELSE IF 0 <= a[1] /\ a[1] <= 240 THEN "<25"
    ELSE IF 240 < a[1] /\ a[1] <= 400 THEN "25-40"
    ELSE IF 400 < a[1] /\ a[1] <= 1000 THEN "40+"
    ELSE NoLabel

\* C8: age_group is "<25" on [0, 24], "25-40" on (24, 40], "40+" on
\* (40, 100] and missing for a missing, negative or larger age; so 0 and 24
\* give "<25", 25 and 40 "25-40", 41 and 100 "40+", 150 missing.
C8_AgeBuckets ==
    AfterDerive =>
        \A i \in 1..Len(work) :
            /\ work[i].age_group = RangeLabel(work[i].agent_age)
            /\ rows_after = rows_before =>
                  <<csvRows[i][AgeColumn], work[i].age_group>> \in AgeTable

\* C8 witness: the lowest edge, age 0, is labelled "<25".
C8_Witness ==
    /\ pc = "derived"
    /\ \E i \in 1..Len(work) : work[i].agent_age = Num(0) /\ work[i].age_group = "<25"

\* C9: in a run started by a change of selection the engineered table, late
\* and age_group included, is the one of the run before, whatever the
\* selections are.
C9_FeaturesIgnoreSelection ==
    AfterDerive /\ prevWork # <<>> => work = prevWork[1]

\* C9 witness: a second run whose filtered view is a proper, non-empty part
\* of a table that has a late record.
C9_Witness ==
    /\ pc = "filtered" /\ prevWork # <<>>
    /\ filtered # <<>> /\ Len(filtered) < Len(work)
    /\ \E i \in 1..Len(work) : work[i].late = 1

Defaults == \A f \in CatFields : sel[f] = vals(work, f)

\* C10: a record with a missing value in any of the five categorical fields
\* is in no filtered view; under the default selections the view is exactly
\* the records with all five values present.
C10_MissingNeverPasses ==
    AfterFilter =>
        /\ \A j \in 1..Len(filtered) : AllPresent(filtered[j])
        /\ \A i \in 1..Len(work) :
              ~AllPresent(work[i]) => \A j \in 1..Len(filtered) : filtered[j] # work[i]
        /\ Defaults => filtered = SelectSeq(work, AllPresent)

\* C10 witness: the default selections leave out a record with a missing
\* value and keep another.
C10_Witness ==
    /\ pc = "filtered" /\ Defaults
    /\ filtered # <<>> /\ Len(filtered) < Len(work)
====
